---- MODULE Spec2Model ----
(***************************************************************************)
(* Model of the True Skate map exporter (src/exporter.py).                 *)
(*                                                                         *)
(* Numbers.  Python floats are modelled in fixed point:                    *)
(*   lengths (local vertex positions, placement offsets)  in 1/LU          *)
(*   normals, UVs and sin/cos values                      in 1/Milli       *)
(*   transformed positions                                in 1/(LU*Milli)  *)
(*   transformed normal X/Z                               in 1/(Milli*Milli)*)
(* An angle is the pair <<n, d>> standing for pi*n/d radians.              *)
(* Vertex sequences are 1-based; index values are the program's 0-based    *)
(* indices, so index i refers to vertices[i + 1].                          *)
(***************************************************************************)
EXTENDS Integers, Sequences, FiniteSets, TLC

VARIABLES pc, data, idx, all_meshes, diagnostics, lines, call, mesh, tvert

vars == <<pc, data, idx, all_meshes, diagnostics, lines, call, mesh, tvert>>

\* ---------------------------------------------------------------- numbers

LU == 100
Milli == 1000

Abs(n) == IF n < 0 THEN -n ELSE n

\* Newton's iteration from an r with r*r >= n down to the integer square root
RECURSIVE SqrtIter(_, _)
SqrtIter(n, r) == IF r <= n \div r THEN r ELSE SqrtIter(n, (r + n \div r) \div 2)

RECURSIVE SqrtStart(_, _)
SqrtStart(n, r) == IF r > n \div r THEN r ELSE SqrtStart(n, 2 * r)

\* math.sqrt on a non-negative fixed-point square: the integer square root
MathSqrt(n) == IF n <= 0 THEN 0 ELSE SqrtIter(n, SqrtStart(n, 1))

\* sin(pi*t) for 0 <= t = n/d <= 1 in 1/Milli (Bhaskara's rational form,
\* exact at 0, 1/6, 1/2, 5/6, 1)
SinHalfTurn(n, d) == (Milli * 16 * n * (d - n)) \div (5 * d * d - 4 * n * (d - n))

\* math.sin(pi*n/d), d > 0
MathSin(n, d) ==
    LET m == n % (2 * d)
    IN  IF m <= d THEN SinHalfTurn(m, d) ELSE -SinHalfTurn(m - d, d)

\* math.cos(pi*n/d) = sin(pi*n/d + pi/2)
MathCos(n, d) == MathSin(2 * n + d, 2 * d)

\* ------------------------------------------------------- data structures

\* Vertex(x, y, z, nx, ny, nz, u, v) with the dataclass defaults for colour
Vertex(x, y, z, nx, ny, nz, u, v) ==
    [x |-> x, y |-> y, z |-> z, nx |-> nx, ny |-> ny, nz |-> nz,
     u |-> u, v |-> v, r |-> 255, g |-> 255, b |-> 255, a |-> 255]

\* Mesh(vertices, indices, material_index)
Mesh(vertices, indices, material_index) ==
    [vertices |-> vertices, indices |-> indices, material_index |-> material_index]

\* ------------------------------------------------------------ generate_box

BoxCorners(width, height, depth, offset_x, offset_y, offset_z) ==
    LET hw == width \div 2
        hh == height \div 2
        hd == depth \div 2
    IN  << <<-hw + offset_x, -hh + offset_y, -hd + offset_z>>,
           << hw + offset_x, -hh + offset_y, -hd + offset_z>>,
           << hw + offset_x,  hh + offset_y, -hd + offset_z>>,
           <<-hw + offset_x,  hh + offset_y, -hd + offset_z>>,
           <<-hw + offset_x, -hh + offset_y,  hd + offset_z>>,
           << hw + offset_x, -hh + offset_y,  hd + offset_z>>,
           << hw + offset_x,  hh + offset_y,  hd + offset_z>>,
           <<-hw + offset_x,  hh + offset_y,  hd + offset_z>> >>

\* faces: (corner indices, normal)
BoxFaces ==
    << [corners |-> <<0, 1, 2, 3>>, normal |-> <<0, 0, -1>>],
       [corners |-> <<5, 4, 7, 6>>, normal |-> <<0, 0, 1>>],
       [corners |-> <<4, 0, 3, 7>>, normal |-> <<-1, 0, 0>>],
       [corners |-> <<1, 5, 6, 2>>, normal |-> <<1, 0, 0>>],
       [corners |-> <<3, 2, 6, 7>>, normal |-> <<0, 1, 0>>],
       [corners |-> <<4, 5, 1, 0>>, normal |-> <<0, -1, 0>>] >>

\* the four vertices one face appends
BoxFaceVertices(corners, face) ==
    [k \in 1..4 |->
        LET i == k - 1
            c == corners[face.corners[k] + 1]
        IN  Vertex(c[1], c[2], c[3],
                   face.normal[1] * Milli, face.normal[2] * Milli, face.normal[3] * Milli,
                   IF i \in {1, 2} THEN Milli ELSE 0,
                   IF i \in {2, 3} THEN Milli ELSE 0)]

\* the two triangles one face appends, base = len(vertices) before the face
BoxFaceIndices(base) == <<base, base + 1, base + 2, base, base + 2, base + 3>>

RECURSIVE BoxLoop(_, _, _, _)
BoxLoop(corners, f, vertices, indices) ==
    IF f > Len(BoxFaces) THEN Mesh(vertices, indices, 0)
    ELSE BoxLoop(corners, f + 1,
                 vertices \o BoxFaceVertices(corners, BoxFaces[f]),
                 indices \o BoxFaceIndices(Len(vertices)))

\* mutant: a box without volume (a dimension <= 0) is returned empty
generate_box_RejectsEmpty(width, height, depth, offset_x, offset_y, offset_z) ==
    IF width <= 0 \/ height <= 0 \/ depth <= 0 THEN Mesh(<<>>, <<>>, 0)
    ELSE BoxLoop(BoxCorners(width, height, depth, offset_x, offset_y, offset_z),
                 1, <<>>, <<>>)

generate_box(width, height, depth, offset_x, offset_y, offset_z) ==
    BoxLoop(BoxCorners(width, height, depth, offset_x, offset_y, offset_z),
            1, <<>>, <<>>)

\* --------------------------------------------------- generate_quarter_pipe

\* the profile point i of the quarter circle (angle = (pi/2) * (i/segments))
QpX(radius, segments, i) == (radius * (Milli - MathCos(i, 2 * segments))) \div Milli
QpY(radius, segments, i) == (radius * MathSin(i, 2 * segments)) \div Milli

\* curved surface: left-edge and right-edge vertex per profile point
QpCurveVertices(radius, width, segments) ==
    [k \in 1..(2 * (segments + 1)) |->
        LET i == (k - 1) \div 2
            right == (k - 1) % 2 = 1
        IN  Vertex(QpX(radius, segments, i) - radius,
                   QpY(radius, segments, i),
                   IF right THEN width \div 2 ELSE -(width \div 2),
                   -MathCos(i, 2 * segments), MathSin(i, 2 * segments), 0,
                   (Milli * i) \div segments,
                   IF right THEN Milli ELSE 0)]

QpCurveIndices(segments) ==
    [k \in 1..(6 * segments) |->
        LET base == ((k - 1) \div 6) * 2
        IN  base + <<0, 2, 3, 0, 3, 1>>[((k - 1) % 6) + 1]]

\* one side panel: the profile points, then the two corner vertices
QpSideVertices(radius, segments, z, nz) ==
    [k \in 1..(segments + 3) |->
        IF k <= segments + 1
        THEN LET x == QpX(radius, segments, k - 1)
                 y == QpY(radius, segments, k - 1)
             IN  Vertex(x - radius, y, z, 0, 0, nz,
                        (x * Milli) \div radius, (y * Milli) \div radius)
        ELSE IF k = segments + 2
        THEN Vertex(-radius, 0, z, 0, 0, nz, 0, 0)
        ELSE Vertex(0, radius, z, 0, 0, nz, Milli, Milli)]

\* left fan: [bottom_left, side_start + i, side_start + i + 1]
QpLeftIndices(segments, bottom_left, side_start) ==
    [k \in 1..(3 * segments) |->
        LET i == (k - 1) \div 3
        IN  <<bottom_left, side_start + i, side_start + i + 1>>[((k - 1) % 3) + 1]]

\* right fan: [bottom_right, right_start + i + 1, right_start + i]
QpRightIndices(segments, bottom_right, right_start) ==
    [k \in 1..(3 * segments) |->
        LET i == (k - 1) \div 3
        IN  <<bottom_right, right_start + i + 1, right_start + i>>[((k - 1) % 3) + 1]]

generate_quarter_pipe(radius, width, segments) ==
    LET curve == QpCurveVertices(radius, width, segments)
        side_start == Len(curve)
        v2 == curve \o QpSideVertices(radius, segments, -(width \div 2), -Milli)
        bottom_left == Len(v2) - 2
        right_start == Len(v2)
        v3 == v2 \o QpSideVertices(radius, segments, width \div 2, Milli)
        bottom_right == Len(v3) - 2
    IN  Mesh(v3,
             QpCurveIndices(segments)
               \o QpLeftIndices(segments, bottom_left, side_start)
               \o QpRightIndices(segments, bottom_right, right_start),
             1)

\* -------------------------------------------------------- generate_pyramid

\* calc_normal: normalised cross product of the edges p2-p1 and p3-p1,
\* (0, 1, 0) for a degenerate face
calc_normal(p1, p2, p3) ==
    LET ax == p2[1] - p1[1]
        ay == p2[2] - p1[2]
        az == p2[3] - p1[3]
        bx == p3[1] - p1[1]
        by == p3[2] - p1[2]
        bz == p3[3] - p1[3]
        nx == (ay * bz - az * by) \div LU
        ny == (az * bx - ax * bz) \div LU
        nz == (ax * by - ay * bx) \div LU
        length == MathSqrt(nx * nx + ny * ny + nz * nz)
    IN  IF length > 0
        THEN <<(nx * Milli) \div length, (ny * Milli) \div length, (nz * Milli) \div length>>
        ELSE <<0, Milli, 0>>

PyramidCorners(base_radius) ==
    << <<-base_radius, 0, -base_radius>>,
       << base_radius, 0, -base_radius>>,
       << base_radius, 0,  base_radius>>,
       <<-base_radius, 0,  base_radius>> >>

\* side faces as corner pairs: front, right, back, left
PyramidFaces == << <<0, 1>>, <<1, 2>>, <<2, 3>>, <<3, 0>> >>

PyramidSideVertices(base_radius, height, face) ==
    LET p1 == PyramidCorners(base_radius)[face[1] + 1]
        p2 == PyramidCorners(base_radius)[face[2] + 1]
        p3 == <<0, height, 0>>
        normal == calc_normal(p1, p2, p3)
    IN  << Vertex(p1[1], p1[2], p1[3], normal[1], normal[2], normal[3], 0, 0),
           Vertex(p2[1], p2[2], p2[3], normal[1], normal[2], normal[3], Milli, 0),
           Vertex(p3[1], p3[2], p3[3], normal[1], normal[2], normal[3], Milli \div 2, Milli) >>

RECURSIVE PyramidLoop(_, _, _, _, _)
PyramidLoop(base_radius, height, f, vertices, indices) ==
    IF f > Len(PyramidFaces) THEN Mesh(vertices, indices, 2)
    ELSE LET base == Len(vertices)
         IN  PyramidLoop(base_radius, height, f + 1,
                         vertices \o PyramidSideVertices(base_radius, height, PyramidFaces[f]),
                         indices \o <<base, base + 1, base + 2>>)

PyramidBottomVertices(base_radius) ==
    [k \in 1..4 |->
        LET c == PyramidCorners(base_radius)[k]
        IN  Vertex(c[1], c[2], c[3], 0, -Milli, 0,
                   ((c[1] + base_radius) * Milli) \div (2 * base_radius),
                   ((c[3] + base_radius) * Milli) \div (2 * base_radius))]

generate_pyramid(base_radius, height) ==
    LET sides == PyramidLoop(base_radius, height, 1, <<>>, <<>>)
        base == Len(sides.vertices)
    IN  Mesh(sides.vertices \o PyramidBottomVertices(base_radius),
             sides.indices \o <<base, base + 2, base + 1, base, base + 3, base + 2>>,
             2)

\* ----------------------------------------------------------- generate_rail

RailSegments == 8

\* the four vertices of bar segment i (left end twice, right end twice)
RailBarVertices(length, height, radius, i) ==
    LET c1 == MathCos(2 * i, RailSegments)
        s1 == MathSin(2 * i, RailSegments)
        c2 == MathCos(2 * (i + 1), RailSegments)
        s2 == MathSin(2 * (i + 1), RailSegments)
        y1 == height + (radius * c1) \div Milli
        z1 == (radius * s1) \div Milli
        y2 == height + (radius * c2) \div Milli
        z2 == (radius * s2) \div Milli
        v1 == (Milli * i) \div RailSegments
        v2 == (Milli * (i + 1)) \div RailSegments
    IN  << Vertex(-(length \div 2), y1, z1, 0, c1, s1, 0, v1),
           Vertex(-(length \div 2), y2, z2, 0, c2, s2, 0, v2),
           Vertex(length \div 2, y1, z1, 0, c1, s1, Milli, v1),
           Vertex(length \div 2, y2, z2, 0, c2, s2, Milli, v2) >>

SupportRadius == 5

\* the four vertices of segment i of the support post at sx
RailPostVertices(height, sx, i) ==
    LET c1 == MathCos(2 * i, RailSegments)
        s1 == MathSin(2 * i, RailSegments)
        c2 == MathCos(2 * (i + 1), RailSegments)
        s2 == MathSin(2 * (i + 1), RailSegments)
        x1 == sx + (SupportRadius * c1) \div Milli
        z1 == (SupportRadius * s1) \div Milli
        x2 == sx + (SupportRadius * c2) \div Milli
        z2 == (SupportRadius * s2) \div Milli
    IN  << Vertex(x1, 0, z1, c1, 0, s1, 0, 0),
           Vertex(x2, 0, z2, c2, 0, s2, Milli, 0),
           Vertex(x1, height, z1, c1, 0, s1, 0, Milli),
           Vertex(x2, height, z2, c2, 0, s2, Milli, Milli) >>

RECURSIVE RailBarLoop(_, _, _, _, _, _)
RailBarLoop(length, height, radius, i, vertices, indices) ==
    IF i >= RailSegments THEN Mesh(vertices, indices, 3)
    ELSE LET base == Len(vertices)
         IN  RailBarLoop(length, height, radius, i + 1,
                         vertices \o RailBarVertices(length, height, radius, i),
                         indices \o <<base, base + 1, base + 3, base, base + 3, base + 2>>)

RECURSIVE RailPostLoop(_, _, _, _, _)
RailPostLoop(height, sx, i, vertices, indices) ==
    IF i >= RailSegments THEN Mesh(vertices, indices, 3)
    ELSE LET base == Len(vertices)
         IN  RailPostLoop(height, sx, i + 1,
                          vertices \o RailPostVertices(height, sx, i),
                          indices \o <<base, base + 2, base + 3, base, base + 3, base + 1>>)

generate_rail(length, height, radius) ==
    LET bar == RailBarLoop(length, height, radius, 0, <<>>, <<>>)
        post1 == RailPostLoop(height, -(length \div 2) + LU \div 2, 0, bar.vertices, bar.indices)
    IN  RailPostLoop(height, length \div 2 - LU \div 2, 0, post1.vertices, post1.indices)

\* --------------------------------------------------------- generate_stairs

\* mutant: the rebasing is off by one
Rebase_OffByOne(indices, base) == [k \in 1..Len(indices) |-> indices[k] + base + 1]

\* mutant: the sub-mesh's indices are appended as they are
Rebase_None(indices, base) == indices

\* [idx + base for idx in indices]
Rebase(indices, base) == [k \in 1..Len(indices) |-> indices[k] + base]

\* step i is the box raised by step_height*(i+0.5), pushed back by step_depth*i
StairsStep(i, step_height, step_depth, step_width) ==
    generate_box(step_width, step_height, step_depth,
                 0, (step_height * (2 * i + 1)) \div 2, -step_depth * i)

RECURSIVE StairsLoop(_, _, _, _, _, _, _)
StairsLoop(num_steps, step_height, step_depth, step_width, i, all_vertices, all_indices) ==
    IF i >= num_steps THEN Mesh(all_vertices, all_indices, 1)
    ELSE LET box == StairsStep(i, step_height, step_depth, step_width)
             base == Len(all_vertices)
         IN  StairsLoop(num_steps, step_height, step_depth, step_width, i + 1,
                        all_vertices \o box.vertices,
                        all_indices \o Rebase(box.indices, base))

generate_stairs(num_steps, step_height, step_depth, step_width) ==
    StairsLoop(num_steps, step_height, step_depth, step_width, 0, <<>>, <<>>)

\* ------------------------------------- generate_ledge, generate_manual_pad

generate_ledge(length, height, depth) ==
    [generate_box(length, height, depth, 0, height \div 2, 0) EXCEPT !.material_index = 1]

generate_manual_pad(length, height, width) ==
    [generate_box(length, height, width, 0, height \div 2, 0) EXCEPT !.material_index = 1]

\* --------------------------------------------------------- generate_kicker

KickerSegments == 8

\* quadratic bezier through (0,0), (0.75*length, 0), (length, height) at t = i/8
KickerX(length, i) ==
    (2 * (KickerSegments - i) * i * ((length * 3) \div 4) + i * i * length)
        \div (KickerSegments * KickerSegments)
KickerY(height, i) == (i * i * height) \div (KickerSegments * KickerSegments)

\* tangent-perpendicular normal (nx, ny) at t = i/8
KickerNormal(length, height, i) ==
    LET dx == (2 * (KickerSegments - i) * ((length * 3) \div 4)
                 + 2 * i * (length - (length * 3) \div 4)) \div KickerSegments
        dy == (2 * i * height) \div KickerSegments
        length_n == MathSqrt(dx * dx + dy * dy)
    IN  IF length_n > 0
        THEN <<(-dy * Milli) \div length_n, (dx * Milli) \div length_n>>
        ELSE <<0, Milli>>

KickerCurveVertices(length, height, width) ==
    [k \in 1..(2 * (KickerSegments + 1)) |->
        LET i == (k - 1) \div 2
            right == (k - 1) % 2 = 1
            n == KickerNormal(length, height, i)
        IN  Vertex(KickerX(length, i), KickerY(height, i),
                   IF right THEN width \div 2 ELSE -(width \div 2),
                   n[1], n[2], 0,
                   (Milli * i) \div KickerSegments,
                   IF right THEN Milli ELSE 0)]

KickerCurveIndices ==
    [k \in 1..(6 * KickerSegments) |->
        LET base == ((k - 1) \div 6) * 2
        IN  base + <<0, 2, 3, 0, 3, 1>>[((k - 1) % 6) + 1]]

KickerBottomVertices(length, width) ==
    << Vertex(0, 0, -(width \div 2), 0, -Milli, 0, 0, 0),
       Vertex(0, 0, width \div 2, 0, -Milli, 0, 0, Milli),
       Vertex(length, 0, width \div 2, 0, -Milli, 0, Milli, Milli),
       Vertex(length, 0, -(width \div 2), 0, -Milli, 0, Milli, 0) >>

KickerBackVertices(length, height, width) ==
    << Vertex(length, 0, -(width \div 2), Milli, 0, 0, 0, 0),
       Vertex(length, 0, width \div 2, Milli, 0, 0, Milli, 0),
       Vertex(length, height, width \div 2, Milli, 0, 0, Milli, Milli),
       Vertex(length, height, -(width \div 2), Milli, 0, 0, 0, Milli) >>

generate_kicker(length, height, width) ==
    LET curve == KickerCurveVertices(length, height, width)
        base1 == Len(curve)
        v2 == curve \o KickerBottomVertices(length, width)
        base2 == Len(v2)
    IN  Mesh(v2 \o KickerBackVertices(length, height, width),
             KickerCurveIndices
               \o <<base1, base1 + 1, base1 + 2, base1, base1 + 2, base1 + 3>>
               \o <<base2, base2 + 1, base2 + 2, base2, base2 + 2, base2 + 3>>,
             4)

\* ---------------------------------------------------------- generate_bench

\* the two legs, at x_offset -0.8 and 0.8
BenchLegOffsets == <<-80, 80>>

RECURSIVE BenchLoop(_, _, _)
BenchLoop(l, all_vertices, all_indices) ==
    IF l > Len(BenchLegOffsets) THEN Mesh(all_vertices, all_indices, 5)
    ELSE LET base == Len(all_vertices)
             leg == generate_box(10, 50, 50, BenchLegOffsets[l], 25, 0)
         IN  BenchLoop(l + 1, all_vertices \o leg.vertices,
                       all_indices \o Rebase(leg.indices, base))

generate_bench ==
    LET seat == generate_box(200, 10, 50, 0, 50, 0)
    IN  BenchLoop(1, seat.vertices, seat.indices)

\* --------------------------------------------------- generate_ground_flat

generate_ground_flat(size) ==
    [generate_box(size, 50, size, 0, -25, 0) EXCEPT !.material_index = 0]

\* ---------------------------------------------------------- generate_slope

\* the hard-coded normal of the angled top surface, (0, 0.894, -0.447)
SlopeTopNormal == <<0, 894, -447>>

SlopeVertices(length, height, width) ==
    LET zl == -(width \div 2)
        zr == width \div 2
        tn == SlopeTopNormal
    IN  << Vertex(0, 0, zl, tn[1], tn[2], tn[3], 0, 0),
           Vertex(0, 0, zr, tn[1], tn[2], tn[3], 0, Milli),
           Vertex(length, height, zr, tn[1], tn[2], tn[3], Milli, Milli),
           Vertex(length, height, zl, tn[1], tn[2], tn[3], Milli, 0),
           \* bottom
           Vertex(0, 0, zl, 0, -Milli, 0, 0, 0),
           Vertex(0, 0, zr, 0, -Milli, 0, 0, Milli),
           Vertex(length, 0, zr, 0, -Milli, 0, Milli, Milli),
           Vertex(length, 0, zl, 0, -Milli, 0, Milli, 0),
           \* back
           Vertex(length, 0, zl, Milli, 0, 0, 0, 0),
           Vertex(length, 0, zr, Milli, 0, 0, Milli, 0),
           Vertex(length, height, zr, Milli, 0, 0, Milli, Milli),
           Vertex(length, height, zl, Milli, 0, 0, 0, Milli),
           \* sides
           Vertex(0, 0, zl, 0, 0, -Milli, 0, 0),
           Vertex(length, 0, zl, 0, 0, -Milli, Milli, 0),
           Vertex(length, height, zl, 0, 0, -Milli, Milli, Milli),
           Vertex(0, 0, zr, 0, 0, Milli, 0, 0),
           Vertex(length, height, zr, 0, 0, Milli, Milli, Milli),
           Vertex(length, 0, zr, 0, 0, Milli, Milli, 0) >>

\* base = len(vertices) before each face: 0, 4, 8, 12, 15
SlopeIndices ==
    <<0, 1, 2, 0, 2, 3>>
      \o <<4, 4 + 2, 4 + 1, 4, 4 + 3, 4 + 2>>
      \o <<8, 8 + 1, 8 + 2, 8, 8 + 2, 8 + 3>>
      \o <<12, 12 + 1, 12 + 2>>
      \o <<15, 15 + 1, 15 + 2>>

generate_slope(length, height, width) ==
    Mesh(SlopeVertices(length, height, width), SlopeIndices, 1)

\* ------------------------------------------------------- OBJECT_GENERATORS

RegistryKeys ==
    {"ground-flat", "ground-slope", "quarter-pipe", "half-pipe", "kicker",
     "pyramid", "rail-flat", "rail-down", "ledge", "manual-pad", "stairs-3",
     "stairs-5", "stairs-hubba", "bench", "trash-can"}

\* generator(): the registry entry called with its default parameters
CallGenerator(obj_type) ==
    CASE obj_type = "ground-flat"  -> generate_ground_flat(1000)
      [] obj_type = "ground-slope" -> generate_slope(500, 200, 500)
      [] obj_type = "quarter-pipe" -> generate_quarter_pipe(300, 600, 12)
      [] obj_type = "half-pipe"    -> generate_quarter_pipe(300, 600, 12)
      [] obj_type = "kicker"       -> generate_kicker(200, 150, 300)
      [] obj_type = "pyramid"      -> generate_pyramid(300, 200)
      [] obj_type = "rail-flat"    -> generate_rail(600, 80, 8)
      [] obj_type = "rail-down"    -> generate_rail(600, 80, 8)
      [] obj_type = "ledge"        -> generate_ledge(500, 60, 80)
      [] obj_type = "manual-pad"   -> generate_manual_pad(400, 30, 200)
      [] obj_type = "stairs-3"     -> generate_stairs(3, 40, 100, 300)
      [] obj_type = "stairs-5"     -> generate_stairs(5, 40, 100, 300)
      [] obj_type = "stairs-hubba" -> generate_stairs(4, 40, 100, 300)
      [] obj_type = "bench"        -> generate_bench
      [] obj_type = "trash-can"    -> generate_box(60, 80, 60, 0, 40, 0)

\* the registry: each key with the mesh its generator returns
OBJECT_GENERATORS == [t \in RegistryKeys |-> CallGenerator(t)]

\* -------------------------------------------------------- transform_vertex

\* d.get(k, default) on a dict modelled as a function
Get(d, k, default) == IF k \in DOMAIN d THEN d[k] ELSE default

ts_scale == 100

\* mutant: the offset is added before scaling and rotating
transform_vertex_TranslateFirst(v, pos, rot, scale) ==
    LET x == (v.x + Get(pos, "x", 0)) * scale
        y == (v.y + Get(pos, "y", 0)) * scale
        z == (v.z + Get(pos, "z", 0)) * scale
        angle == Get(rot, "y", <<0, 1>>)
        cos_a == MathCos(angle[1], angle[2])
        sin_a == MathSin(angle[1], angle[2])
    IN  [x |-> (x * cos_a - z * sin_a) * ts_scale,
         y |-> y * ts_scale,
         z |-> (x * sin_a + z * cos_a) * ts_scale,
         nx |-> v.nx * cos_a - v.nz * sin_a, ny |-> v.ny,
         nz |-> v.nx * sin_a + v.nz * cos_a,
         u |-> v.u, v |-> v.v,
         r |-> v.r, g |-> v.g, b |-> v.b, a |-> v.a]

\* pos: dict of offsets in 1/LU; rot: dict with the angle <<n, d>>; scale: integer.
\* Result: x, z in 1/(LU*Milli), y in 1/LU, nx, nz in 1/(Milli*Milli), ny in 1/Milli.
transform_vertex(v, pos, rot, scale) ==
    LET x == v.x * scale
        y == v.y * scale
        z == v.z * scale
        angle == Get(rot, "y", <<0, 1>>)
        cos_a == MathCos(angle[1], angle[2])
        sin_a == MathSin(angle[1], angle[2])
        new_x == x * cos_a - z * sin_a
        new_z == x * sin_a + z * cos_a
        new_nx == v.nx * cos_a - v.nz * sin_a
        new_nz == v.nx * sin_a + v.nz * cos_a
        final_x == (new_x + Get(pos, "x", 0) * Milli) * ts_scale
        final_y == (y + Get(pos, "y", 0)) * ts_scale
        final_z == (new_z + Get(pos, "z", 0) * Milli) * ts_scale
    IN  [x |-> final_x, y |-> final_y, z |-> final_z,
         nx |-> new_nx, ny |-> v.ny, nz |-> new_nz,
         u |-> v.u, v |-> v.v,
         r |-> v.r, g |-> v.g, b |-> v.b, a |-> v.a]

\* ----------------------------------------------------- write_trueskate_txt

\* One output line.  kind "int": str(val), "float": '%.6f' of a number,
\* "text": no number; label is the text after the number (orig names the
\* statement group of the writer that appended the line, mesh the mesh it
\* was appended for, 0 when none).
IntLine(n, label, orig, k) ==
    [kind |-> "int", neg |-> n < 0, val |-> Abs(n), frac |-> 0,
     label |-> label, orig |-> orig, mesh |-> k]

TextLine(label, orig, k) ==
    [kind |-> "text", neg |-> FALSE, val |-> 0, frac |-> 0,
     label |-> label, orig |-> orig, mesh |-> k]

\* f'{num/den:.6f}': sign, integer part and the six decimals (den divides 10^6)
FloatLine(num, den, label, orig, k) ==
    [kind |-> "float", neg |-> num < 0, val |-> Abs(num) \div den,
     frac |-> (Abs(num) % den) * (1000000 \div den),
     label |-> label, orig |-> orig, mesh |-> k]

\* header: the BASK magic bytes, version, visibility marker, fixed value
PreambleLines ==
    << IntLine(84, "", "preamble", 0), IntLine(65, "", "preamble", 0),
       IntLine(83, "", "preamble", 0), IntLine(75, "", "preamble", 0),
       IntLine(1003, "#Version", "preamble", 0),
       TextLine("<VIS ", "preamble", 0),
       IntLine(17, "", "preamble", 0) >>

TextureLines(textures) ==
    <<IntLine(Len(textures), "#Num Textures", "textures", 0)>>
      \o [k \in 1..Len(textures) |-> TextLine(textures[k], "textures", 0)]

num_materials == 6

material_colors ==
    << <<128, 128, 130>>, <<100, 100, 105>>, <<85, 85, 90>>,
       <<180, 180, 180>>, <<136, 85, 51>>, <<139, 69, 19>> >>

\* the block of one material of the table
MaterialBlock(rgb) ==
    << TextLine("#Material", "materials", 0),
       IntLine(1, "#Material Type (Solid)", "materials", 0),
       TextLine("#Color", "materials", 0),
       IntLine(rgb[1], "", "materials", 0), IntLine(rgb[2], "", "materials", 0),
       IntLine(rgb[3], "", "materials", 0), IntLine(255, "", "materials", 0),
       FloatLine(1000000, 1000000, "#Specular", "materials", 0),
       FloatLine(5000000, 1000000, "#G Blend Sharpness", "materials", 0),
       FloatLine(800000, 1000000, "#G Blend Level", "materials", 0),
       FloatLine(500000, 1000000, "#G Blend Mode", "materials", 0),
       TextLine("#G Shadow Color", "materials", 0),
       IntLine(180, "", "materials", 0), IntLine(180, "", "materials", 0),
       IntLine(180, "", "materials", 0), IntLine(255, "", "materials", 0),
       TextLine("#G Highlight Color", "materials", 0),
       IntLine(255, "", "materials", 0), IntLine(255, "", "materials", 0),
       IntLine(255, "", "materials", 0), IntLine(255, "", "materials", 0),
       IntLine(0, "#Texture index", "materials", 0),
       IntLine(0, "", "materials", 0), IntLine(0, "", "materials", 0) >>

RECURSIVE MaterialLoop(_, _)
MaterialLoop(i, out) ==
    IF i > Len(material_colors) THEN out
    ELSE MaterialLoop(i + 1, out \o MaterialBlock(material_colors[i]))

MaterialLines ==
    MaterialLoop(1, <<IntLine(num_materials, "#Num Materials", "materials", 0)>>)

\* mutant: the total counts the indices instead of the vertices
RECURSIVE SumVertices_Indices(_, _)
SumVertices_Indices(meshes, k) ==
    IF k > Len(meshes) THEN 0
    ELSE Len(meshes[k].indices) + SumVertices_Indices(meshes, k + 1)

\* sum(len(m.vertices) for m in meshes)
RECURSIVE SumVertices(_, _)
SumVertices(meshes, k) ==
    IF k > Len(meshes) THEN 0
    ELSE Len(meshes[k].vertices) + SumVertices(meshes, k + 1)

\* the header block of mesh k
MeshHeaderLines(m, k) ==
    << IntLine(Len(m.indices), "#Num Indices", "header", k),
       IntLine(Len(m.vertices), "#Num Vertices", "header", k),
       TextLine("#Normals (Flags |= 0x1)", "header", k),
       IntLine(1, "#Flags", "header", k),
       IntLine(2, "#Num Colour Sets", "header", k),
       IntLine(2, "#Num Uv Sets", "header", k),
       TextLine("#Mesh", "header", k) >>

LinesPerVertex == 18

\* line j (0-based) of the record of vertex v of mesh k
VertexLine(v, j, k) ==
    CASE j = 0 -> FloatLine(v.nx, Milli * Milli, "", "vertex", k)
      [] j = 1 -> FloatLine(v.ny, Milli, "", "vertex", k)
      [] j = 2 -> FloatLine(v.nz, Milli * Milli, "", "vertex", k)
      [] j = 3 -> FloatLine(v.x, LU * Milli, "", "vertex", k)
      [] j = 4 -> FloatLine(v.y, LU, "", "vertex", k)
      [] j = 5 -> FloatLine(v.z, LU * Milli, "", "vertex", k)
      [] j = 6 -> FloatLine(v.u, Milli, "", "vertex", k)
      [] j = 7 -> FloatLine(v.v, Milli, "", "vertex", k)
      [] j = 8 -> FloatLine(v.u, Milli, "", "vertex", k)
      [] j = 9 -> FloatLine(v.v, Milli, "", "vertex", k)
      [] j = 10 -> IntLine(v.r, "", "vertex", k)
      [] j = 11 -> IntLine(v.g, "", "vertex", k)
      [] j = 12 -> IntLine(v.b, "", "vertex", k)
      [] j = 13 -> IntLine(v.a, "", "vertex", k)
      [] OTHER -> IntLine(255, "", "vertex", k)

\* the vertex-data block of mesh k
MeshVertexLines(m, k) ==
    [j \in 1..(LinesPerVertex * Len(m.vertices)) |->
        VertexLine(m.vertices[((j - 1) \div LinesPerVertex) + 1],
                   (j - 1) % LinesPerVertex, k)]

\* mutant: the indices are rebased by the vertices of the meshes before k
MeshIndexLines_Rebased(m, k) ==
    [j \in 1..Len(m.indices) |->
        IntLine(m.indices[j] + Len(m.vertices) * (k - 1), "", "index", k)]

\* the index block of mesh k
MeshIndexLines(m, k) ==
    [j \in 1..Len(m.indices) |-> IntLine(m.indices[j], "", "index", k)]

\* for mesh in meshes: append the header block
RECURSIVE HeaderLoop(_, _, _)
HeaderLoop(meshes, k, out) ==
    IF k > Len(meshes) THEN out
    ELSE HeaderLoop(meshes, k + 1, out \o MeshHeaderLines(meshes[k], k))

\* for mesh in meshes: for v in mesh.vertices: append the vertex record
RECURSIVE VertexLoop(_, _, _)
VertexLoop(meshes, k, out) ==
    IF k > Len(meshes) THEN out
    ELSE VertexLoop(meshes, k + 1, out \o MeshVertexLines(meshes[k], k))

\* for mesh in meshes: for idx in mesh.indices: append str(idx)
RECURSIVE IndexLoop(_, _, _)
IndexLoop(meshes, k, out) ==
    IF k > Len(meshes) THEN out
    ELSE IndexLoop(meshes, k + 1, out \o MeshIndexLines(meshes[k], k))

\* mutant: each mesh's header block is followed by its own vertex data
RECURSIVE InterleavedLoop(_, _, _)
InterleavedLoop(meshes, k, out) ==
    IF k > Len(meshes) THEN out
    ELSE InterleavedLoop(meshes, k + 1,
             out \o MeshHeaderLines(meshes[k], k) \o MeshVertexLines(meshes[k], k))

write_trueskate_txt_Interleaved(meshes, textures) ==
    PreambleLines
      \o TextureLines(textures)
      \o MaterialLines
      \o <<IntLine(SumVertices(meshes, 1), "#Num Vertices", "total", 0)>>
      \o InterleavedLoop(meshes, 1, <<>>)
      \o IndexLoop(meshes, 1, <<>>)

\* the lines written to the geometry file, in order
write_trueskate_txt(meshes, textures) ==
    LET total_vertices == SumVertices(meshes, 1)
    IN  PreambleLines
          \o TextureLines(textures)
          \o MaterialLines
          \o <<IntLine(total_vertices, "#Num Vertices", "total", 0)>>
          \o HeaderLoop(meshes, 1, <<>>)
          \o VertexLoop(meshes, 1, <<>>)
          \o IndexLoop(meshes, 1, <<>>)

\* -------------------------------------------------------- export_skatepark

\* objects = data.get('objects', [])
Objects(d) == Get(d, "objects", <<>>)

\* the ground plane added first: generate_ground_flat(50.0) placed at y = -0.25
GroundMesh ==
    LET ground == generate_ground_flat(5000)
    IN  Mesh([k \in 1..Len(ground.vertices) |->
                 transform_vertex(ground.vertices[k],
                                  [x |-> 0, y |-> -25, z |-> 0], [y |-> <<0, 1>>], 1)],
             ground.indices, 0)

\* mutant: the appended mesh is built without the material index
PlacedMesh_DropsMaterial(local, pos, rot, scale) ==
    Mesh([k \in 1..Len(local.vertices) |->
             transform_vertex(local.vertices[k], pos, rot, scale)],
         local.indices, 0)

\* the mesh appended for a known-type object: every vertex of the
\* generator's mesh transformed, indices and material index kept
PlacedMesh(local, pos, rot, scale) ==
    Mesh([k \in 1..Len(local.vertices) |->
             transform_vertex(local.vertices[k], pos, rot, scale)],
         local.indices, local.material_index)

\* mutant: a missing type has no default and is looked up as the empty name
ObjType_NoDefault(obj) == Get(obj, "type", "")

\* obj.get('type', 'ground-flat')
ObjType(obj) == Get(obj, "type", "ground-flat")
ObjPos(obj) == Get(obj, "position", [x |-> 0, y |-> 0, z |-> 0])
ObjRot(obj) == Get(obj, "rotation", [y |-> <<0, 1>>])
ObjScale(obj) == Get(obj, "scale", 1)

\* `if generator:` on generator = OBJECT_GENERATORS.get(obj_type)
Known(obj) == ObjType(obj) \in DOMAIN OBJECT_GENERATORS

\* the progress line of a placed object reads pos['x'], pos['y'], pos['z']
PrintablePos(pos) == {"x", "y", "z"} \subseteq DOMAIN pos

\* mutant: the mesh is inserted at the front of the scene
AppendMesh_Front(meshes, m) == <<m>> \o meshes

\* all_meshes.append(m)
AppendMesh(meshes, m) == Append(meshes, m)

\* the `if generator:` branch: the mesh is appended, then the progress line
\* is printed (KeyError when pos lacks a key: the loop is left by the exception)
PlaceObject(meshes, diags, obj_type, pos, placed) ==
    IF PrintablePos(pos)
    THEN [meshes |-> AppendMesh(meshes, placed),
          diags |-> Append(diags, [mark |-> "+", obj_type |-> obj_type]),
          raised |-> FALSE]
    ELSE [meshes |-> AppendMesh(meshes, placed), diags |-> diags, raised |-> TRUE]

\* mutant: an unknown type falls back to the ground-flat generator
SkipObject_Fallback(meshes, diags, obj_type) ==
    [meshes |-> Append(meshes, OBJECT_GENERATORS["ground-flat"]),
     diags |-> Append(diags, [mark |-> "!", obj_type |-> obj_type]),
     raised |-> FALSE]

\* the `else` branch: the unknown type is reported, nothing is appended
SkipObject(meshes, diags, obj_type) ==
    [meshes |-> meshes,
     diags |-> Append(diags, [mark |-> "!", obj_type |-> obj_type]),
     raised |-> FALSE]

\* the body of `for obj in objects`: the scene and the printed diagnostics
\* after it, and whether it raised
ProcessObject(meshes, diags, obj) ==
    IF Known(obj)
    THEN PlaceObject(meshes, diags, ObjType(obj), ObjPos(obj),
                     PlacedMesh(OBJECT_GENERATORS[ObjType(obj)],
                                ObjPos(obj), ObjRot(obj), ObjScale(obj)))
    ELSE SkipObject(meshes, diags, ObjType(obj))

\* the whole loop over objs, started from the scene holding the ground mesh
RECURSIVE AssembleLoop(_, _, _)
AssembleLoop(objs, i, r) ==
    IF i > Len(objs) \/ r.raised THEN r
    ELSE AssembleLoop(objs, i + 1, ProcessObject(r.meshes, r.diags, objs[i]))

Assemble(objs) ==
    AssembleLoop(objs, 1, [meshes |-> <<GroundMesh>>, diags |-> <<>>, raised |-> FALSE])

textures == <<"concrete_gray">>

\* ------------------------------------------------------------ input bounds

MaxObjects == 2
MaxSteps == 3
MaxSegments == 3

FullPos == [x |-> 100, y |-> 0, z |-> 200]

\* object descriptions: one per generator function of the registry (the
\* aliases half-pipe, rail-down, stairs-5 and stairs-hubba are reached by
\* CallRegistry), an unknown type, objects without a type, and every way of leaving
\* out a placement sub-field
ObjectPool ==
    { [type |-> "ledge", position |-> FullPos, scale |-> 2],
      [type |-> "not-a-real-type", position |-> FullPos, rotation |-> [y |-> <<1, 2>>]],
      [type |-> "not-a-real-type"],
      [position |-> FullPos, rotation |-> [y |-> <<1, 6>>], scale |-> 1],
      [scale |-> 2],
      [type |-> "pyramid"],
      [type |-> "kicker", position |-> [y |-> 50, z |-> -100], scale |-> 2],
      [type |-> "ground-slope", position |-> [x |-> -300, z |-> 0], rotation |-> [y |-> <<1, 1>>]],
      [type |-> "trash-can", position |-> [x |-> 10, y |-> 20]],
      [type |-> "manual-pad", position |-> <<>>, rotation |-> <<>>],
      [type |-> "bench", rotation |-> <<>>, scale |-> 3],
      [type |-> "quarter-pipe", position |-> FullPos, rotation |-> [y |-> <<1, 2>>], scale |-> 1],
      [type |-> "rail-flat", position |-> FullPos, rotation |-> [y |-> <<3, 2>>]],
      [type |-> "stairs-3", position |-> FullPos, rotation |-> [y |-> <<1, 6>>]],
      [type |-> "ground-flat", position |-> FullPos, rotation |-> [y |-> <<0, 1>>], scale |-> 2] }

ObjectLists == UNION {[1..n -> ObjectPool] : n \in 0..MaxObjects}

\* the loaded JSON document: with an object list, or without the key
Inputs ==
    {[name |-> "My Skatepark"]}
      \cup {[name |-> "My Skatepark", objects |-> objs] : objs \in ObjectLists}

\* ----------------------------------------------------------------- actions

NoCall == [fn |-> "none", args |-> <<>>]
NoMesh == Mesh(<<>>, <<>>, 0)
NoVertex == Vertex(0, 0, 0, 0, 0, 0, 0, 0)

Init ==
    /\ pc = "idle"
    /\ data = [name |-> "My Skatepark"]
    /\ idx = 0
    /\ all_meshes = <<>>
    /\ diagnostics = <<>>
    /\ lines = <<>>
    /\ call = NoCall
    /\ mesh = NoMesh
    /\ tvert = NoVertex

\* export_skatepark up to the object loop: load, add the ground plane first
ExportStart(d) ==
    /\ pc = "idle"
    /\ data' = d
    /\ all_meshes' = <<GroundMesh>>
    /\ idx' = 0
    /\ pc' = "loop"
    /\ call' = [fn |-> "export_skatepark", args |-> <<>>]
    /\ UNCHANGED <<diagnostics, lines, mesh, tvert>>

\* one iteration of `for obj in objects`
ExportObject ==
    /\ pc = "loop"
    /\ idx < Len(Objects(data))
    /\ \E r \in {ProcessObject(all_meshes, diagnostics, Objects(data)[idx + 1])} :
           /\ all_meshes' = r.meshes
           /\ diagnostics' = r.diags
           /\ IF r.raised
              THEN pc' = "failed" /\ idx' = idx
              ELSE pc' = "loop" /\ idx' = idx + 1
    /\ UNCHANGED <<data, lines, call, mesh, tvert>>

\* after the loop: the geometry file is written
ExportWrite ==
    /\ pc = "loop"
    /\ idx = Len(Objects(data))
    /\ lines' = write_trueskate_txt(all_meshes, textures)
    /\ pc' = "done"
    /\ UNCHANGED <<data, idx, all_meshes, diagnostics, call, mesh, tvert>>

\* the return of a direct call of a generator function: fn(args) gave m
Returns(fn, args, m) ==
    /\ pc' = "returned"
    /\ call' = [fn |-> fn, args |-> args]
    /\ mesh' = m
    /\ UNCHANGED <<data, idx, all_meshes, diagnostics, lines, tvert>>

Dims == {-100, 0, 100, 240}
Offsets == {<<0, 0, 0>>, <<50, -25, 10>>}

CallBox ==
    \E w \in Dims, h \in Dims, d \in Dims, o \in Offsets :
        /\ pc = "idle"
        /\ Returns("generate_box", <<w, h, d, o>>, generate_box(w, h, d, o[1], o[2], o[3]))

CallQuarterPipe ==
    \E radius \in {100, 300}, width \in {200, 600}, segments \in 1..MaxSegments :
        /\ pc = "idle"
        /\ Returns("generate_quarter_pipe", <<radius, width, segments>>,
               generate_quarter_pipe(radius, width, segments))

CallPyramid ==
    \E base_radius \in {100, 300}, height \in {0, 200} :
        /\ pc = "idle"
        /\ Returns("generate_pyramid", <<base_radius, height>>,
               generate_pyramid(base_radius, height))

CallRail ==
    \E length \in {200, 600}, height \in {80}, radius \in {8, 20} :
        /\ pc = "idle"
        /\ Returns("generate_rail", <<length, height, radius>>,
               generate_rail(length, height, radius))

CallStairs ==
    \E num_steps \in 0..MaxSteps, step_height \in {40, 50}, step_depth \in {100} :
        /\ pc = "idle"
        /\ Returns("generate_stairs", <<num_steps, step_height, step_depth, 300>>,
               generate_stairs(num_steps, step_height, step_depth, 300))

CallLedge ==
    \E length \in {100, 500}, height \in {60}, depth \in {80} :
        /\ pc = "idle"
        /\ Returns("generate_ledge", <<length, height, depth>>,
               generate_ledge(length, height, depth))

CallKicker ==
    \E length \in {200, 400}, height \in {0, 150}, width \in {300} :
        /\ pc = "idle"
        /\ Returns("generate_kicker", <<length, height, width>>,
               generate_kicker(length, height, width))

CallManualPad ==
    \E length \in {400}, height \in {30, 60}, width \in {200} :
        /\ pc = "idle"
        /\ Returns("generate_manual_pad", <<length, height, width>>,
               generate_manual_pad(length, height, width))

CallBench ==
    /\ pc = "idle"
    /\ Returns("generate_bench", <<>>, generate_bench)

CallGroundFlat ==
    \E size \in {1000, 5000} :
        /\ pc = "idle"
        /\ Returns("generate_ground_flat", <<size>>, generate_ground_flat(size))

CallSlope ==
    \E length \in {200, 500}, height \in {100, 200}, width \in {500} :
        /\ pc = "idle"
        /\ Returns("generate_slope", <<length, height, width>>,
               generate_slope(length, height, width))

\* generator() of a registry entry
CallRegistry ==
    \E t \in DOMAIN OBJECT_GENERATORS :
        /\ pc = "idle"
        /\ Returns("OBJECT_GENERATORS", <<t>>, OBJECT_GENERATORS[t])

\* placements for a direct call of transform_vertex
Positions ==
    { [x |-> 0, y |-> 0, z |-> 0], [x |-> 100, y |-> 0, z |-> 200],
      [x |-> -50, y |-> 30, z |-> 7], [y |-> 30, z |-> 7], [x |-> 5], <<>> }
Rotations == { [y |-> <<0, 1>>], [y |-> <<1, 2>>], [y |-> <<1, 6>>], [y |-> <<5, 4>>], <<>> }
Scales == {1, 2, 3}

\* vertices to transform: those of the default slope and kicker
SampleVertices ==
    LET s == generate_slope(500, 200, 500).vertices
        k == generate_kicker(200, 150, 300).vertices
    IN  {s[i] : i \in 1..Len(s)} \cup {k[i] : i \in 1..Len(k)}

\* the Vertex object passed as v, as the caller finds it after the call:
\* transform_vertex reads v's fields and stores into none of them
transform_vertex_arg(v, pos, rot, scale) == v

CallTransform ==
    \E v \in SampleVertices, pos \in Positions, rot \in Rotations, scale \in Scales :
        /\ pc = "idle"
        /\ pc' = "returned"
        /\ call' = [fn |-> "transform_vertex", args |-> <<v, pos, rot, scale>>,
                    v_after |-> transform_vertex_arg(v, pos, rot, scale)]
        /\ tvert' = transform_vertex(v, pos, rot, scale)
        /\ UNCHANGED <<data, idx, all_meshes, diagnostics, lines, mesh>>

Next ==
    \/ \E d \in Inputs : ExportStart(d)
    \/ ExportObject
    \/ ExportWrite
    \/ CallBox
    \/ CallQuarterPipe
    \/ CallPyramid
    \/ CallRail
    \/ CallStairs
    \/ CallLedge
    \/ CallKicker
    \/ CallManualPad
    \/ CallBench
    \/ CallGroundFlat
    \/ CallSlope
    \/ CallRegistry
    \/ CallTransform

Spec == Init /\ [][Next]_vars

\* ------------------------------------------------------------------ claims

InputObjects == Objects(data)

\* objs without its i-th element
RemoveAt(objs, i) == SubSeq(objs, 1, i - 1) \o SubSeq(objs, i + 1, Len(objs))

\* the writer's statement groups in the order of the source
SectionOrder(orig) ==
    CASE orig = "preamble" -> 0
      [] orig = "textures" -> 1
      [] orig = "materials" -> 2
      [] orig = "total" -> 3
      [] orig = "header" -> 4
      [] orig = "vertex" -> 5
      [] orig = "index" -> 6

HeaderLinesPerMesh == 7

\* C1: in the written file all per-mesh header blocks come consecutively and
\* in scene order before any vertex-data line, all vertex-data blocks (in
\* scene order) before any index line, and no header line follows a vertex
\* or index line.
C1_HeadersBeforeData ==
    pc = "done" =>
        /\ \A i \in 1..(Len(lines) - 1) :
              \/ SectionOrder(lines[i].orig) < SectionOrder(lines[i + 1].orig)
              \/ /\ lines[i].orig = lines[i + 1].orig
                 /\ lines[i].mesh <= lines[i + 1].mesh
        /\ \A k \in 1..Len(all_meshes) :
              /\ Cardinality({i \in 1..Len(lines) :
                     lines[i].orig = "header" /\ lines[i].mesh = k}) = HeaderLinesPerMesh
              /\ Cardinality({i \in 1..Len(lines) :
                     lines[i].orig = "vertex" /\ lines[i].mesh = k})
                   = LinesPerVertex * Len(all_meshes[k].vertices)
              /\ Cardinality({i \in 1..Len(lines) :
                     lines[i].orig = "index" /\ lines[i].mesh = k})
                   = Len(all_meshes[k].indices)

C1_Witness == pc = "done" /\ Len(all_meshes) = 3 /\ Len(lines) > 0

\* C2: an object of unknown type is skipped without aborting: the scene (and
\* whether the export completes) is that of the same list without the object,
\* exactly one skip diagnostic is reported for it, and the objects after it
\* are processed as they would be without it.
C2_UnknownTypeSkipped ==
    pc \in {"done", "failed"} =>
        \A i \in 1..Len(InputObjects) :
            ~Known(InputObjects[i]) =>
                /\ Assemble(RemoveAt(InputObjects, i)).meshes = all_meshes
                /\ Assemble(RemoveAt(InputObjects, i)).raised = (pc = "failed")
                /\ i <= idx =>
                      /\ diagnostics[i] = [mark |-> "!", obj_type |-> ObjType(InputObjects[i])]
                      /\ RemoveAt(diagnostics, i) = Assemble(RemoveAt(InputObjects, i)).diags

C2_Witness ==
    /\ pc = "done"
    /\ Len(InputObjects) = 2
    /\ ~Known(InputObjects[1])
    /\ Known(InputObjects[2])
    /\ Len(all_meshes) = 2

\* the meshes of the known-type objects among the first n, in input order
RECURSIVE PlacedPrefix(_, _)
PlacedPrefix(objs, n) ==
    IF n = 0 THEN <<>>
    ELSE IF Known(objs[n])
    THEN Append(PlacedPrefix(objs, n - 1),
                PlacedMesh(OBJECT_GENERATORS[ObjType(objs[n])],
                           ObjPos(objs[n]), ObjRot(objs[n]), ObjScale(objs[n])))
    ELSE PlacedPrefix(objs, n - 1)

\* C3: after any processed prefix the scene is the ground mesh followed by one
\* mesh per processed known-type object, in input order; the final scene has
\* 1 + (number of known-type objects) meshes.  (At an aborted export the
\* object being processed has already been appended.)
C3_GroundFirstInputOrder ==
    /\ pc \in {"loop", "done"} =>
          all_meshes = <<GroundMesh>> \o PlacedPrefix(InputObjects, idx)
    /\ pc = "failed" =>
          all_meshes = <<GroundMesh>> \o PlacedPrefix(InputObjects, idx + 1)
    /\ pc = "done" =>
          Len(all_meshes) = 1 + Cardinality({i \in 1..Len(InputObjects) : Known(InputObjects[i])})

C3_Witness ==
    /\ pc = "loop"
    /\ idx = 2
    /\ Known(InputObjects[1])
    /\ Known(InputObjects[2])
    /\ ObjType(InputObjects[1]) # ObjType(InputObjects[2])

\* a placement sub-field, or the documented default when it is missing
PosOrZero(obj, k) == IF "position" \in DOMAIN obj /\ k \in DOMAIN obj.position
                     THEN obj.position[k] ELSE 0
AngleOrZero(obj) == IF "rotation" \in DOMAIN obj /\ "y" \in DOMAIN obj.rotation
                    THEN obj.rotation.y ELSE <<0, 1>>
ScaleOrOne(obj) == IF "scale" \in DOMAIN obj THEN obj.scale ELSE 1

\* the number of known-type objects among the first n
KnownCount(objs, n) == Cardinality({i \in 1..n : Known(objs[i])})

\* C4 (as claimed): a known-type object with any placement sub-field missing
\* is exported without failure, the missing values taken as 0 for position
\* components, 0 for the angle and 1.0 for the scale, and an input without an
\* object list is exported as the ground mesh alone.
C4_MissingFieldsExported ==
    /\ pc # "failed"
    /\ pc = "done" /\ "objects" \notin DOMAIN data => all_meshes = <<GroundMesh>>
    /\ pc \in {"loop", "done"} =>
          \A i \in 1..idx :
              Known(InputObjects[i]) =>
                  all_meshes[1 + KnownCount(InputObjects, i)]
                    = PlacedMesh(OBJECT_GENERATORS[ObjType(InputObjects[i])],
                                 [x |-> PosOrZero(InputObjects[i], "x"),
                                  y |-> PosOrZero(InputObjects[i], "y"),
                                  z |-> PosOrZero(InputObjects[i], "z")],
                                 [y |-> AngleOrZero(InputObjects[i])],
                                 ScaleOrOne(InputObjects[i]))

\* indices come in triples and each refers to a vertex of the mesh
WellFormed(m) ==
    /\ Len(m.indices) % 3 = 0
    /\ \A k \in 1..Len(m.indices) : 0 <= m.indices[k] /\ m.indices[k] < Len(m.vertices)

\* C5: the mesh returned by every generator (every registry entry, every
\* generator function with its parameters, stairs of any step count >= 0,
\* quarter pipes of any segment count >= 1) and every mesh of every scene
\* has an index list of length a multiple of 3 with every index in range.
C5_IndicesWellFormed ==
    /\ WellFormed(mesh)
    /\ \A k \in 1..Len(all_meshes) : WellFormed(all_meshes[k])

C5_Witness ==
    /\ pc = "returned"
    /\ call.fn = "generate_stairs"
    /\ call.args[1] >= 2
    /\ Len(mesh.indices) = 36 * call.args[1]

\* cross product and dot product of triples
Cross(a, b) ==
    <<a[2] * b[3] - a[3] * b[2], a[3] * b[1] - a[1] * b[3], a[1] * b[2] - a[2] * b[1]>>
Dot(a, b) == a[1] * b[1] + a[2] * b[2] + a[3] * b[3]
Sub(a, b) == <<a[1] - b[1], a[2] - b[2], a[3] - b[3]>>
PosOf(v) == <<v.x, v.y, v.z>>
NormalOf(v) == <<v.nx, v.ny, v.nz>>

\* the sum of the vertex positions of m (its centroid times the vertex count)
RECURSIVE PosSum(_, _)
PosSum(m, k) ==
    IF k > Len(m.vertices) THEN <<0, 0, 0>>
    ELSE LET r == PosSum(m, k + 1)
             p == PosOf(m.vertices[k])
         IN  <<p[1] + r[1], p[2] + r[2], p[3] + r[3]>>

\* triangle t (0-based) of m: winding agrees with the stored normal of its
\* first vertex, and that normal points away from the centroid of the solid
TriangleOutward(m, t) ==
    LET v0 == m.vertices[m.indices[3 * t + 1] + 1]
        v1 == m.vertices[m.indices[3 * t + 2] + 1]
        v2 == m.vertices[m.indices[3 * t + 3] + 1]
        n == Len(m.vertices)
        c == PosSum(m, 1)
    IN  /\ Dot(Cross(Sub(PosOf(v1), PosOf(v0)), Sub(PosOf(v2), PosOf(v0))),
               NormalOf(v0)) > 0
        /\ Dot(<<n * v0.x - c[1], n * v0.y - c[2], n * v0.z - c[3]>>, NormalOf(v0)) > 0

\* the registry entries that are convex solids with flat faces only
FlatSolidTypes ==
    {"ground-flat", "ground-slope", "pyramid", "ledge", "manual-pad", "trash-can"}

\* C6 (as claimed): for every triangle of every generated flat-faced mesh the
\* winding agrees with the stored normal by the right-hand rule (strictly
\* positive dot product) and the normal points outward, uniformly across the
\* faces of a generator and across generators.
C6_WindingMatchesNormals ==
    pc = "returned" /\ call.fn = "OBJECT_GENERATORS" /\ call.args[1] \in FlatSolidTypes =>
        \A t \in 0..((Len(mesh.indices) \div 3) - 1) : TriangleOutward(mesh, t)

\* C7: transform_vertex computes ((RotY(scale * p)) + offset) * 100: the
\* offset is neither scaled nor rotated but multiplied by 100, Y is not
\* rotated, the normal is rotated by the same angle and never scaled, moved
\* or multiplied by 100; under the identity placement the position is 100
\* times the input and the normal unchanged.
C7_TransformOrder ==
    pc = "returned" /\ call.fn = "transform_vertex" =>
        LET v == call.args[1]
            pos == call.args[2]
            rot == call.args[3]
            scale == call.args[4]
            px == IF "x" \in DOMAIN pos THEN pos.x ELSE 0
            py == IF "y" \in DOMAIN pos THEN pos.y ELSE 0
            pz == IF "z" \in DOMAIN pos THEN pos.z ELSE 0
            angle == IF "y" \in DOMAIN rot THEN rot.y ELSE <<0, 1>>
            c == MathCos(angle[1], angle[2])
            s == MathSin(angle[1], angle[2])
        IN  /\ tvert.x = 100 * (((scale * v.x) * c - (scale * v.z) * s) + px * Milli)
            /\ tvert.y = 100 * (scale * v.y + py)
            /\ tvert.z = 100 * (((scale * v.x) * s + (scale * v.z) * c) + pz * Milli)
            /\ tvert.nx = v.nx * c - v.nz * s
            /\ tvert.ny = v.ny
            /\ tvert.nz = v.nx * s + v.nz * c
            /\ (px = 0 /\ py = 0 /\ pz = 0 /\ angle[1] = 0 /\ scale = 1) =>
                  /\ tvert.x = 100 * v.x * Milli
                  /\ tvert.y = 100 * v.y
                  /\ tvert.z = 100 * v.z * Milli
                  /\ tvert.nx = v.nx * Milli
                  /\ tvert.nz = v.nz * Milli

C7_Witness ==
    /\ pc = "returned"
    /\ call.fn = "transform_vertex"
    /\ call.args[4] = 2
    /\ call.args[3] = [y |-> <<1, 6>>]
    /\ call.args[2] = [x |-> -50, y |-> 30, z |-> 7]
    /\ call.args[1].x # 0
    /\ call.args[1].z # 0
    /\ call.args[1].nz # 0

\* the position of the first line labelled '#Num Vertices': the global count
TotalPos ==
    CHOOSE i \in 1..Len(lines) :
        /\ lines[i].label = "#Num Vertices"
        /\ \A j \in 1..(i - 1) : lines[j].label # "#Num Vertices"

\* the vertex count written in the header block of mesh k
HeaderVertexCount(k) ==
    lines[CHOOSE i \in 1..Len(lines) :
            /\ lines[i].orig = "header"
            /\ lines[i].mesh = k
            /\ lines[i].label = "#Num Vertices"].val

RECURSIVE SumHeaderVertexCounts(_)
SumHeaderVertexCounts(k) ==
    IF k = 0 THEN 0 ELSE HeaderVertexCount(k) + SumHeaderVertexCounts(k - 1)

\* the positions of the '#Material' lines
MaterialStarts == {i \in 1..Len(lines) : lines[i].label = "#Material"}

\* the RGB triples the material table must hold
FixedRGB ==
    { <<128, 128, 130>>, <<100, 100, 105>>, <<85, 85, 90>>,
      <<180, 180, 180>>, <<136, 85, 51>>, <<139, 69, 19>> }

\* C8: the global '#Num Vertices' line, written after the material table,
\* equals the sum of the vertex counts of the per-mesh headers and the number
\* of vertex records; when the only object is one ledge it is the ground
\* mesh's vertex count + 24; the material table has exactly 6 entries with
\* the fixed RGB triples.
C8_TotalVertexCount ==
    pc = "done" =>
        /\ lines[TotalPos - 1].orig = "materials"
        /\ lines[TotalPos].kind = "int"
        /\ lines[TotalPos].val = SumHeaderVertexCounts(Len(all_meshes))
        /\ lines[TotalPos].val * LinesPerVertex
             = Cardinality({i \in 1..Len(lines) : lines[i].orig = "vertex"})
        /\ (Len(InputObjects) = 1 /\ ObjType(InputObjects[1]) = "ledge"
              /\ "type" \in DOMAIN InputObjects[1]) =>
              lines[TotalPos].val = Len(GroundMesh.vertices) + 24
        /\ Cardinality(MaterialStarts) = 6
        /\ \A i \in MaterialStarts : i < TotalPos /\ lines[i + 2].label = "#Color"
        /\ {<<lines[i + 3].val, lines[i + 4].val, lines[i + 5].val>> : i \in MaterialStarts}
             = FixedRGB
        /\ \E i \in 1..TotalPos : lines[i].label = "#Num Materials" /\ lines[i].val = 6

C8_Witness ==
    /\ pc = "done"
    /\ Len(InputObjects) = 1
    /\ InputObjects[1] = [type |-> "ledge", position |-> [x |-> 100, y |-> 0, z |-> 200], scale |-> 2]
    /\ lines[TotalPos].val = 48

\* the number of index lines of the meshes before mesh k
RECURSIVE IndicesBefore(_)
IndicesBefore(k) ==
    IF k <= 1 THEN 0 ELSE Len(all_meshes[k - 1].indices) + IndicesBefore(k - 1)

\* the position of the last line before the index section
IndexStart ==
    TotalPos + HeaderLinesPerMesh * Len(all_meshes) + LinesPerVertex * lines[TotalPos].val

\* C9: index block k of the file is exactly mesh k's own index list, in
\* order: zero-based and below the vertex count of mesh k's header, however
\* many vertices the earlier meshes have.
C9_IndicesNotRebased ==
    pc = "done" =>
        /\ Len(lines) = IndexStart + IndicesBefore(Len(all_meshes) + 1)
        /\ \A k \in 1..Len(all_meshes) :
              \A j \in 1..Len(all_meshes[k].indices) :
                  LET l == lines[IndexStart + IndicesBefore(k) + j]
                  IN  /\ l.kind = "int" /\ l.label = "" /\ ~l.neg
                      /\ l.val = all_meshes[k].indices[j]
                      /\ l.val < HeaderVertexCount(k)

C9_Witness ==
    /\ pc = "done"
    /\ Len(all_meshes) = 3
    /\ Len(all_meshes[2].vertices) > 24
    /\ Len(all_meshes[3].indices) > 0
    /\ lines[Len(lines)].val < 24

\* the labels of a header block in the documented order
DocumentedHeader ==
    <<"#Mesh", "#Num Indices", "#Num Vertices", "#Normals (Flags |= 0x1)",
      "#Flags", "#Num Colour Sets", "#Num Uv Sets">>

\* C10 (as claimed): the global '#Num Vertices' line is immediately followed
\* by a mesh-count line holding the number of meshes, and every per-mesh
\* header block begins with '#Mesh', followed by '#Num Indices',
\* '#Num Vertices', the normals marker, '#Flags', '#Num Colour Sets' and
\* '#Num Uv Sets'.
C10_MeshCountAndMeshFirst ==
    pc = "done" =>
        /\ lines[TotalPos + 1].kind = "int"
        /\ lines[TotalPos + 1].label = ""
        /\ lines[TotalPos + 1].val = Len(all_meshes)
        /\ \A k \in 1..Len(all_meshes) :
              \A j \in 1..HeaderLinesPerMesh :
                  lines[TotalPos + 1 + HeaderLinesPerMesh * (k - 1) + j].label
                    = DocumentedHeader[j]

\* the mesh is a box: 6 faces of 4 vertices each and 2 triangles each, the
\* triangles of face f using only the 4 vertices of face f
IsBoxShaped(m) ==
    /\ Len(m.vertices) = 24
    /\ Len(m.indices) = 36
    /\ \A f \in 0..5 :
          /\ \A j \in 1..6 : m.indices[6 * f + j] \in (4 * f)..(4 * f + 3)
          /\ \A t \in 0..1 :
                Cardinality({m.indices[6 * f + 3 * t + j] : j \in 1..3}) = 3

\* the calls whose result is built from a single generate_box call
BoxBuilt ==
    \/ call.fn \in {"generate_box", "generate_ledge", "generate_manual_pad",
                    "generate_ground_flat"}
    \/ /\ call.fn = "OBJECT_GENERATORS"
       /\ call.args[1] \in {"ledge", "manual-pad", "ground-flat", "trash-can"}

\* C11: generate_box returns exactly 24 vertices and 36 indices (12
\* triangles: 6 faces of 4 unshared vertices and 2 triangles each) for every
\* width, height, depth and offset, zero and negative dimensions included;
\* the ledge, manual pad, ground-flat and trash-can meshes and the ground
\* plane of every scene are box shaped as well.
C11_BoxCounts ==
    /\ pc = "returned" /\ BoxBuilt => IsBoxShaped(mesh)
    /\ Len(all_meshes) > 0 => IsBoxShaped(all_meshes[1])

C11_Witness ==
    /\ pc = "returned"
    /\ call.fn = "generate_box"
    /\ call.args[1] < 0
    /\ call.args[2] = 0
    /\ call.args[4] # <<0, 0, 0>>
    /\ Len(mesh.vertices) = 24
    /\ Len(mesh.indices) = 36

\* the index list of a box: per face f the pattern 0,1,2, 0,2,3 on base 4f
BoxLocalIndices ==
    [j \in 1..36 |-> 4 * ((j - 1) \div 6) + <<0, 1, 2, 0, 2, 3>>[((j - 1) % 6) + 1]]

\* sub-box k (from 0) of m: its indices are the box's local indices plus the
\* 24k vertices appended before it, so they lie in [24k, 24k+23]
SubBoxRebased(m, k) ==
    \A j \in 1..36 :
        /\ m.indices[36 * k + j] = BoxLocalIndices[j] + 24 * k
        /\ m.indices[36 * k + j] \in (24 * k)..(24 * k + 23)

\* the vertices of sub-box k (from 0) of m
SubBoxVertices(m, k) == SubSeq(m.vertices, 24 * k + 1, 24 * k + 24)

\* m concatenates n boxes with rebased indices
ConcatOfBoxes(m, n) ==
    /\ Len(m.vertices) = 24 * n
    /\ Len(m.indices) = 36 * n
    /\ \A k \in 0..(n - 1) : SubBoxRebased(m, k)

\* m is the stairs of a = <<num_steps, step_height, step_depth, step_width>>
StairsAsClaimed(m, a) ==
    /\ ConcatOfBoxes(m, a[1])
    /\ \A i \in 0..(a[1] - 1) :
          SubBoxVertices(m, i)
            = generate_box(a[4], a[2], a[3],
                           0, a[2] * i + a[2] \div 2, -(a[3] * i)).vertices

\* the registry's stairs entries with the parameters their lambdas pass
RegistryStairs ==
    [t \in {"stairs-3", "stairs-5", "stairs-hubba"} |->
        <<CASE t = "stairs-3" -> 3 [] t = "stairs-5" -> 5 [] t = "stairs-hubba" -> 4,
          40, 100, 300>>]

\* C12: in generate_stairs (any number of steps) and generate_bench the
\* indices of sub-box k are its local indices plus the number of vertices
\* appended before it: the combined mesh has 24 vertices and 36 indices per
\* sub-box, every index of sub-box k lies in [24k, 24k+23], and step i of the
\* stairs is the box offset by step_height*(i+0.5) in Y and -step_depth*i in Z.
C12_ConcatRebased ==
    pc = "returned" =>
        /\ call.fn = "generate_stairs" => StairsAsClaimed(mesh, call.args)
        /\ call.fn = "OBJECT_GENERATORS" /\ call.args[1] \in DOMAIN RegistryStairs =>
              StairsAsClaimed(mesh, RegistryStairs[call.args[1]])
        /\ (\/ call.fn = "generate_bench"
            \/ call.fn = "OBJECT_GENERATORS" /\ call.args[1] = "bench")
              => ConcatOfBoxes(mesh, 3)

C12_Witness ==
    /\ pc = "returned"
    /\ call.fn = "generate_stairs"
    /\ call.args[1] >= 3
    /\ mesh.indices[36 * 2 + 1] = 48
    /\ mesh.vertices[24 * 2 + 1].y = call.args[2] * 2

\* vertex t keeps the U, V, colour and normal-Y of vertex v
KeepsFrame(t, v) ==
    /\ t.u = v.u /\ t.v = v.v
    /\ t.r = v.r /\ t.g = v.g /\ t.b = v.b /\ t.a = v.a
    /\ t.ny = v.ny

\* placed has the vertex count, index list and material index of local, and
\* each of its vertices keeps the frame of the corresponding local vertex
PlacementFrame(placed, local) ==
    /\ Len(placed.vertices) = Len(local.vertices)
    /\ placed.indices = local.indices
    /\ placed.material_index = local.material_index
    /\ \A k \in 1..Len(local.vertices) : KeepsFrame(placed.vertices[k], local.vertices[k])

\* the number of objects whose mesh has been appended
AppendedUpTo == IF pc = "failed" THEN idx + 1 ELSE idx

\* C13: placement changes only positions and the X/Z of normals: the mesh
\* appended for every known-type object under every placement has the vertex
\* count, index list and material index of the generator's local mesh, each
\* vertex keeps U, V, colour and normal-Y, and the vertex passed to
\* transform_vertex is the same after the call.
C13_PlacementFrame ==
    /\ pc \in {"loop", "done", "failed"} =>
          \A i \in 1..AppendedUpTo :
              Known(InputObjects[i]) =>
                  PlacementFrame(all_meshes[1 + KnownCount(InputObjects, i)],
                                 OBJECT_GENERATORS[ObjType(InputObjects[i])])
    /\ pc = "returned" /\ call.fn = "transform_vertex" =>
          /\ KeepsFrame(tvert, call.args[1])
          /\ call.v_after = call.args[1]

C13_Witness ==
    /\ pc = "loop"
    /\ idx = 2
    /\ ObjType(InputObjects[1]) = "stairs-3"
    /\ ObjType(InputObjects[2]) = "ledge"
    /\ ObjScale(InputObjects[2]) = 2
    /\ all_meshes[2].material_index = 1
    /\ all_meshes[2].vertices[1].nx # 0
    /\ OBJECT_GENERATORS["stairs-3"].vertices[1].nx = 0
    /\ Len(all_meshes[3].vertices) = 24

\* the scene index of the mesh appended for object i: one mesh per "+" line
\* printed so far, or the last mesh when the object's progress line raised
MeshIndexOf(i) ==
    IF i <= Len(diagnostics)
    THEN 1 + Cardinality({j \in 1..i : diagnostics[j].mark = "+"})
    ELSE Len(all_meshes)

\* C14: an object description without a 'type' field is not skipped as an
\* unknown type: it is assembled as 'ground-flat', i.e. the 24-vertex box of
\* generate_ground_flat() with material index 0 is appended at the object's
\* placement, and no skip diagnostic is reported for it.
C14_MissingTypeIsGroundFlat ==
    pc \in {"loop", "done", "failed"} =>
        \A i \in 1..AppendedUpTo :
            "type" \notin DOMAIN InputObjects[i] =>
                /\ i <= Len(diagnostics) =>
                      diagnostics[i] = [mark |-> "+", obj_type |-> "ground-flat"]
                /\ MeshIndexOf(i) \in 2..Len(all_meshes)
                /\ all_meshes[MeshIndexOf(i)]
                     = PlacedMesh(generate_ground_flat(1000), ObjPos(InputObjects[i]),
                                  ObjRot(InputObjects[i]), ObjScale(InputObjects[i]))
                /\ Len(all_meshes[MeshIndexOf(i)].vertices) = 24
                /\ all_meshes[MeshIndexOf(i)].material_index = 0

C14_Witness ==
    /\ pc = "done"
    /\ Len(InputObjects) = 2
    /\ "type" \in DOMAIN InputObjects[1]
    /\ InputObjects[1].type = "not-a-real-type"
    /\ "type" \notin DOMAIN InputObjects[2]
    /\ "position" \in DOMAIN InputObjects[2]
    /\ Len(all_meshes) = 2
    /\ Len(all_meshes[2].vertices) = 24
    /\ diagnostics[1].mark = "!"
    /\ diagnostics[2].mark = "+"

====
